---- MODULE Spec2Model ----
(***************************************************************************)
(* Daily-SecBot: the Suricata rule stores (secbot.defense.suricata,        *)
(* suricata_url, suricata_hash), the reload procedure each of them runs,   *)
(* and the cycles (main.job, scheduler.job_ioc) that drive them.           *)
(*                                                                         *)
(* Text is modelled as a sequence of atoms.  Indicator values (the         *)
(* caller's input) are sequences of one-character strings; the fixed text  *)
(* of a rule template is written as longer atoms, except for the           *)
(* characters the parsers look for (blank, double quote, semicolon), which *)
(* are always atoms of their own.                                          *)
(***************************************************************************)
EXTENDS Naturals, Sequences, FiniteSets, TLC

(***************************************************************************)
(* Bounds of the model.                                                    *)
(***************************************************************************)
\* longest batch handed to one call
MaxBatch == 2
\* most rule lines the files hold together
MaxLines == 3
\* the same, for the files the cycles write
MaxCycleLines == 4
\* most attempts a retry wrapper is given
MaxAttempts == 7
\* most mails the news job sends in the day
MaxMails == 4

(***************************************************************************)
(* Program constants.                                                      *)
(***************************************************************************)
BASE_SID == 7000000
BASE_SID_URL == 7100000
BASE_SID_HASH == 7200000

(***************************************************************************)
(* str methods used by the stores.                                         *)
(***************************************************************************)
SP == " "
QUOTE == "\""
SEMI == ";"

IsPrefix(p, s) ==
    /\ Len(p) <= Len(s)
    /\ SubSeq(s, 1, Len(p)) = p

\* str.lstrip() / str.rstrip() / str.strip(): blanks off both ends
RECURSIVE LStrip(_)
LStrip(s) ==
    IF s # <<>> /\ Head(s) = SP THEN LStrip(Tail(s)) ELSE s

RECURSIVE RStrip(_)
RStrip(s) ==
    IF s # <<>> /\ s[Len(s)] = SP THEN RStrip(SubSeq(s, 1, Len(s) - 1)) ELSE s

Strip(s) == RStrip(LStrip(s))

\* str.replace(old, new): every occurrence, left to right, non-overlapping
RECURSIVE Replace(_, _, _)
Replace(s, old, new) ==
    IF s = <<>> THEN <<>>
    ELSE IF IsPrefix(old, s)
         THEN new \o Replace(SubSeq(s, Len(old) + 1, Len(s)), old, new)
         ELSE <<Head(s)>> \o Replace(Tail(s), old, new)

\* the index of the first occurrence of sub in s from position i on, 0 if none
RECURSIVE Find(_, _, _)
Find(s, sub, i) ==
    IF i + Len(sub) - 1 > Len(s) THEN 0
    ELSE IF SubSeq(s, i, i + Len(sub) - 1) = sub THEN i
         ELSE Find(s, sub, i + 1)

\* str.split(sep): the pieces between the occurrences of the character sep
RECURSIVE SplitOn(_, _)
SplitOn(s, sep) ==
    LET i == Find(s, <<sep>>, 1)
    IN  IF i = 0 THEN <<s>>
        ELSE <<SubSeq(s, 1, i - 1)>> \o SplitOn(SubSeq(s, i + 1, Len(s)), sep)

\* str.split(): the maximal runs of non-blank atoms
SplitWs(s) == SelectSeq(SplitOn(s, SP), LAMBDA t : t # <<>>)

\* str.lower() on the characters the model uses
LowerChar(c) ==
    CASE c = "A" -> "a"
      [] c = "B" -> "b"
      [] c = "C" -> "c"
      [] c = "D" -> "d"
      [] c = "E" -> "e"
      [] c = "F" -> "f"
      [] OTHER -> c

Lower(s) == [i \in 1..Len(s) |-> LowerChar(s[i])]

\* the order sorted() puts strings in: code points, position by position
Ord(c) ==
    CASE c = SP -> 32
      [] c = QUOTE -> 34
      [] c = "." -> 46
      [] c = "/" -> 47
      [] c = "0" -> 48
      [] c = "1" -> 49
      [] c = "2" -> 50
      [] c = "9" -> 57
      [] c = ":" -> 58
      [] c = SEMI -> 59
      [] c = "A" -> 65
      [] c = "B" -> 66
      [] c = "[" -> 91
      [] c = "]" -> 93
      [] c = "a" -> 97
      [] c = "b" -> 98
      [] c = "h" -> 104
      [] c = "x" -> 120
      [] c = "z" -> 122
      [] OTHER -> 127

RECURSIVE StrLess(_, _)
StrLess(a, b) ==
    IF b = <<>> THEN FALSE
    ELSE IF a = <<>> THEN TRUE
    ELSE IF Ord(Head(a)) # Ord(Head(b)) THEN Ord(Head(a)) < Ord(Head(b))
    ELSE StrLess(Tail(a), Tail(b))

\* sorted(S) for a set of strings
RECURSIVE Sorted(_)
Sorted(S) ==
    IF S = {} THEN <<>>
    ELSE LET m == CHOOSE x \in S : \A y \in S \ {x} : StrLess(x, y)
         IN  <<m>> \o Sorted(S \ {m})

Range(s) == {s[i] : i \in 1..Len(s)}

\* the list without the later repetitions of a value
RECURSIVE Dedup(_)
Dedup(s) ==
    IF s = <<>> THEN <<>>
    ELSE LET r == Dedup(SubSeq(s, 1, Len(s) - 1))
             x == s[Len(s)]
         IN  IF x \in Range(r) THEN r ELSE Append(r, x)

(***************************************************************************)
(* ipaddress.ip_address on the dotted-quad strings of the model.           *)
(***************************************************************************)
Digits == {"0", "1", "2", "3", "4", "5", "6", "7", "8", "9"}

DigitVal(c) ==
    CASE c = "0" -> 0 [] c = "1" -> 1 [] c = "2" -> 2 [] c = "3" -> 3
      [] c = "4" -> 4 [] c = "5" -> 5 [] c = "6" -> 6 [] c = "7" -> 7
      [] c = "8" -> 8 [] c = "9" -> 9

DigitChar(n) ==
    CASE n = 0 -> "0" [] n = 1 -> "1" [] n = 2 -> "2" [] n = 3 -> "3"
      [] n = 4 -> "4" [] n = 5 -> "5" [] n = 6 -> "6" [] n = 7 -> "7"
      [] n = 8 -> "8" [] n = 9 -> "9"

RECURSIVE DecVal(_)
DecVal(s) ==
    IF s = <<>> THEN 0
    ELSE 10 * DecVal(SubSeq(s, 1, Len(s) - 1)) + DigitVal(s[Len(s)])

RECURSIVE DecStr(_)
DecStr(n) ==
    IF n < 10 THEN <<DigitChar(n)>>
    ELSE Append(DecStr(n \div 10), DigitChar(n % 10))

\* one octet of an IPv4 address: 1 to 3 decimal digits, no leading zero, <= 255
IsOctet(s) ==
    /\ Len(s) \in 1..3
    /\ \A i \in 1..Len(s) : s[i] \in Digits
    /\ (Len(s) > 1 => s[1] # "0")
    /\ DecVal(s) <= 255

\* ip_address(s) succeeds
IsIPv4(s) ==
    LET parts == SplitOn(s, ".")
    IN  /\ Len(parts) = 4
        /\ \A i \in 1..4 : IsOctet(parts[i])

\* str(ip_address(s)): the octets, printed in decimal and joined by dots
StrIPv4(s) ==
    LET parts == SplitOn(s, ".")
    IN  DecStr(DecVal(parts[1])) \o <<".">> \o DecStr(DecVal(parts[2]))
            \o <<".">> \o DecStr(DecVal(parts[3]))
            \o <<".">> \o DecStr(DecVal(parts[4]))

\* ip_address(s) succeeds on a link-local IPv6 address with a zone: fe80::1,
\* a percent sign, and a zone that is not empty and holds no '%' and no '/';
\* str() gives the address back as it is
IsIPv6Zoned(s) ==
    LET head == <<"f", "e", "8", "0", ":", ":", "1", "%">>
        zone_ok(zone) == zone # <<>> /\ "%" \notin Range(zone) /\ "/" \notin Range(zone)
    IN  IsPrefix(head, s) /\ zone_ok(SubSeq(s, Len(head) + 1, Len(s)))

\* the value None
None == <<"None">>

\* suricata._normalize_ip
normalize_ip(value) ==
    LET ip_address(ip_str) == IF IsIPv4(ip_str) THEN StrIPv4(ip_str)
                              ELSE IF IsIPv6Zoned(ip_str) THEN ip_str
                              ELSE None
    IN  IF value = <<>> THEN None
        ELSE ip_address(Replace(Strip(value), <<"[", ".", "]">>, <<".">>))

(***************************************************************************)
(* Rule lines.  A line of a rule file is kept as the record of what was    *)
(* written, [kind, val, sid]; Render gives its text, which is all the      *)
(* stores ever read back.  A line of the hash list file is a bare value    *)
(* (kind "list").                                                          *)
(***************************************************************************)
Line(kind, val, sid) == [kind |-> kind, val |-> val, sid |-> sid]

\* urlparse(url).hostname and the path, for URLs of the shape scheme://host/path
UrlHost(url) ==
    LET upto(rest, j) == IF j = 0 THEN rest ELSE SubSeq(rest, 1, j - 1)
        netloc(rest) == upto(rest, Find(rest, <<"/">>, 1))
        after_scheme(i) ==
            IF i = 0 THEN <<>> ELSE netloc(SubSeq(url, i + 3, Len(url)))
    IN  Lower(after_scheme(Find(url, <<":", "/", "/">>, 1)))

\* the index of the last occurrence of the character ch in s, 0 if none
RECURSIVE RFind(_, _, _)
RFind(s, ch, i) ==
    IF i = 0 THEN 0 ELSE IF s[i] = ch THEN i ELSE RFind(s, ch, i - 1)

\* urlparse keeps the parameters (";..." in the last segment) out of the path
UrlPath(url) ==
    LET or_root(path) == IF path = <<>> THEN <<"/">> ELSE path
        cut(full, k) == IF k = 0 THEN full ELSE SubSeq(full, 1, k - 1)
        no_params(full) ==
            cut(full, Find(full, <<SEMI>>, RFind(full, "/", Len(full)) + 1))
        from(rest, j) == IF j = 0 THEN <<>> ELSE SubSeq(rest, j, Len(rest))
        path_of(rest) == from(rest, Find(rest, <<"/">>, 1))
        after_scheme(i) ==
            IF i = 0 THEN url ELSE path_of(SubSeq(url, i + 3, Len(url)))
    IN  or_root(no_params(after_scheme(Find(url, <<":", "/", "/">>, 1))))

\* the marker block_urls splits a line on: 'msg:"SecBot malicious URL '
UrlMarker == <<"msg:", QUOTE, "SecBot", SP, "malicious", SP, "URL", SP>>

HASH_LIST_NAME == <<"secbot-hash.list">>

SidText(sid) == <<"sid:">> \o DecStr(sid) \o <<SEMI, SP, "rev:1", SEMI, ")">>

\* the f-strings of suricata._write_rules_file, suricata_url.block_urls and
\* suricata_hash.block_hashes
Render(l) ==
    CASE l.kind = "ip" ->
           <<"drop", SP, "ip", SP>> \o l.val
             \o <<SP, "any", SP, "<>", SP, "any", SP, "any", SP,
                  "(msg:", QUOTE, "SecBot", SP, "malicious", SP, "IP", SP>>
             \o l.val \o <<QUOTE, SEMI, SP>> \o SidText(l.sid)
      [] l.kind = "url" ->
           LET parsed == Replace(Replace(l.val, <<"[", ":", "]">>, <<":">>),
                                 <<"[", ".", "]">>, <<".">>)
           IN  <<"drop", SP, "http", SP, "any", SP, "any", SP, "->", SP,
                 "any", SP, "any", SP, "(">> \o UrlMarker \o l.val
                 \o <<QUOTE, SEMI, SP, "http.host", SEMI, SP, "content:", QUOTE>>
                 \o UrlHost(parsed)
                 \o <<QUOTE, SEMI, SP, "http.uri", SEMI, SP, "content:", QUOTE>>
                 \o UrlPath(parsed) \o <<QUOTE, SEMI, SP>> \o SidText(l.sid)
      [] l.kind = "hash" ->
           <<"drop", SP, "http", SP, "any", SP, "any", SP, "->", SP,
             "any", SP, "any", SP, "(msg:", QUOTE, "SecBot", SP, "malicious",
             SP, "file", SP, "download", QUOTE, SEMI, SP, "flow:established",
             SEMI, SP, "filemd5:">> \o l.val \o <<SEMI, SP>> \o SidText(l.sid)
      [] OTHER -> l.val

(***************************************************************************)
(* Files.  A file is [exists, lines, older]: older[k] counts rule lines of *)
(* kind k at the head of the file that earlier merges wrote for indicators *)
(* outside the alphabet of the model, with the identifiers base + 1 ..     *)
(* base + older[k]; they parse like any other line and never equal a value *)
(* of a batch.                                                             *)
(***************************************************************************)
NoOlder == [ip |-> 0, url |-> 0]
Absent == [exists |-> FALSE, lines |-> <<>>, older |-> NoOlder]

\* position of the first occurrence of x in the list s (list.index), 0 if none
RECURSIVE IndexOf(_, _, _)
IndexOf(s, x, i) ==
    IF i > Len(s) THEN 0 ELSE IF s[i] = x THEN i ELSE IndexOf(s, x, i + 1)

\* suricata._write_rules_file, the token of one line that names the address
ip_token(text) ==
    LET at_arrow(parts, arrow) ==
            IF arrow = 3 THEN parts[arrow + 2] ELSE parts[3]
        token(parts) ==
            IF Len(parts) < 3 \/ parts[1] # <<"drop">> \/ parts[2] # <<"ip">>
            THEN None
            ELSE IF <<"<>">> \in Range(parts) THEN parts[3]
            ELSE IF <<"->">> \in Range(parts)
                 THEN at_arrow(parts, IndexOf(parts, <<"->">>, 1) - 1)
            ELSE None
    IN  token(SplitWs(text))

\* suricata._write_rules_file, step 2: the addresses the file already holds
existing_ips(f) ==
    LET clean(tok) == IF tok = None THEN None ELSE normalize_ip(tok)
    IN  Dedup(SelectSeq([i \in 1..Len(f.lines) |->
                           clean(ip_token(Render(f.lines[i])))],
                        LAMBDA c : c # None))

\* suricata._write_rules_file, step 1: the batch, cleaned and deduplicated
new_ips(ips) ==
    LET clean == [i \in 1..Len(ips) |-> normalize_ip(ips[i])]
    IN  Dedup(SelectSeq(clean, LAMBDA c : c # None))

\* suricata._write_rules_file, steps 3 and 4: what is to be written and how
write_rules_plan(f, ips) ==
    LET final_ips(existing, new) ==
            existing \o SelectSeq(new, LAMBDA ip : ip \notin Range(existing))
        ips_to_write(existing, final) ==
            IF ~f.exists THEN final
            ELSE SelectSeq(final, LAMBDA ip : ip \notin Range(existing))
        written(n_existing, to_write, start_index) ==
            [mode  |-> IF ~f.exists THEN "w" ELSE "a",
             lines |-> [i \in 1..Len(to_write) |->
                          Line("ip", to_write[i], BASE_SID + start_index + i - 1)],
             count |-> n_existing + Len(to_write)]
        numbered(n_existing, to_write) ==
            written(n_existing, to_write, IF ~f.exists THEN 1 ELSE n_existing + 1)
        merged(existing, new) ==
            numbered(f.older.ip + Len(existing),
                     ips_to_write(existing, final_ips(existing, new)))
    IN  merged(existing_ips(f), new_ips(ips))

\* suricata_url.block_urls: the URL one line's msg field gives, None if it has none
url_of_line(text) ==
    LET upto(part, j) == IF j = 0 THEN part ELSE SubSeq(part, 1, j - 1)
        url_str(part) == upto(part, Find(part, <<QUOTE, SEMI>>, 1))
        after_marker(i) ==
            IF i = 0 THEN None
            ELSE url_str(SubSeq(text, i + Len(UrlMarker), Len(text)))
    IN  after_marker(Find(text, UrlMarker, 1))

\* suricata_url.block_urls, step 4: the set of URLs the file already holds
existing_urls(f) ==
    {url_of_line(Render(f.lines[i])) : i \in 1..Len(f.lines)} \ {None}

\* suricata_url.block_urls: the batch, stripped, deduplicated and sorted
uniq_urls(urls) ==
    Sorted({Strip(urls[i]) : i \in 1..Len(urls)} \ {<<>>})

\* suricata_url.block_urls, steps 5 and 6: what is to be written and how
block_urls_plan(f, urls) ==
    LET mode == IF ~f.exists THEN "w" ELSE "a"
        new_urls(uniq, existing) == SelectSeq(uniq, LAMBDA u : u \notin existing)
        written(urls_to_write, start) ==
            [mode  |-> mode,
             lines |-> [i \in 1..Len(urls_to_write) |->
                          Line("url", urls_to_write[i], BASE_SID_URL + start + i - 1)],
             count |-> 0]
        merged(uniq, existing) ==
            written(IF ~f.exists THEN uniq ELSE new_urls(uniq, existing),
                    BASE_SID_URL
                      + (IF mode = "a" THEN f.older.url + Cardinality(existing) ELSE 0)
                      - BASE_SID_URL + 1)
    IN  merged(uniq_urls(urls), existing_urls(f))

\* suricata_hash.block_hashes, step 1: the batch, stripped, lower-cased, sorted
uniq_hashes(hashes) ==
    Sorted({Lower(Strip(hashes[i])) : i \in 1..Len(hashes)} \ {<<>>})

\* suricata_hash.block_hashes, step 2: the list file is written anew
hash_list_plan(hashes) ==
    LET uniq == uniq_hashes(hashes)
    IN  [mode  |-> "w",
         lines |-> [i \in 1..Len(uniq) |-> Line("list", uniq[i], 0)],
         count |-> 0]

\* suricata_hash.block_hashes: the one rule that names the list file
rule_line == Line("hash", HASH_LIST_NAME, BASE_SID_HASH)

\* suricata_hash.block_hashes, step 3: the rule is written unless the file has it
hash_rule_plan(f) ==
    [mode  |-> IF ~f.exists THEN "w" ELSE "a",
     lines |-> IF f.exists /\ \E i \in 1..Len(f.lines) : f.lines[i] = rule_line
               THEN <<>> ELSE <<rule_line>>,
     count |-> 0]

(***************************************************************************)
(* The reload procedure.  The collaborators are the engine binary (present *)
(* or not, its self-test passing or not), the suricatasc tool (absent,     *)
(* succeeding or failing), the pid file and the delivery of the signal.    *)
(* A reload yields the requests it issued, in order, and the exception     *)
(* that left it, if any.                                                   *)
(***************************************************************************)
\* A collaborator the procedure does not get to (bin, test, sc, pid, kill is
\* the order it consults them in) cannot be observed: it is taken as working.
Envs ==
    {e \in [bin : BOOLEAN, test : BOOLEAN, sc : {"none", "ok", "fail"},
            pid : BOOLEAN, kill : BOOLEAN] :
        /\ (~e.bin => e.test)
        /\ (~(e.bin /\ e.test) => e.sc = "ok")
        /\ (e.sc = "ok" => e.pid)
        /\ (~e.pid => e.kill)}

NoRaise == "none"

\* suricata._signal_suricata (kill runs with check=False)
signal_suricata(env) ==
    IF env.pid THEN <<IF env.kill THEN "kill:ok" ELSE "kill:fail">>
    ELSE <<"nopid">>

\* a reload that goes on to the socket and the signal whatever the self-test says
reload_untested(env) ==
    LET first == IF env.test THEN "selftest:ok" ELSE "selftest:fail"
    IN  IF ~env.bin THEN [events |-> <<>>, raised |-> "RuntimeError"]
        ELSE IF env.sc = "ok"
             THEN [events |-> <<first, "sc:ok">>, raised |-> NoRaise]
        ELSE IF env.sc = "fail"
             THEN [events |-> <<first, "sc:fail">> \o signal_suricata(env),
                   raised |-> NoRaise]
        ELSE [events |-> <<first>> \o signal_suricata(env), raised |-> NoRaise]

\* a reload that sends the signal as well after the socket request has succeeded
reload_both(env) ==
    IF ~env.bin THEN [events |-> <<>>, raised |-> "RuntimeError"]
    ELSE IF ~env.test THEN [events |-> <<"selftest:fail">>, raised |-> NoRaise]
    ELSE IF env.sc = "none"
         THEN [events |-> <<"selftest:ok">> \o signal_suricata(env), raised |-> NoRaise]
    ELSE [events |-> <<"selftest:ok", "sc:" \o env.sc>> \o signal_suricata(env),
          raised |-> NoRaise]

\* suricata._reload_suricata, with _run_suricata_cmd for the self-test
reload_suricata(env) ==
    IF ~env.bin THEN [events |-> <<>>, raised |-> "RuntimeError"]
    ELSE IF ~env.test THEN [events |-> <<"selftest:fail">>, raised |-> NoRaise]
    ELSE IF env.sc = "ok"
         THEN [events |-> <<"selftest:ok", "sc:ok">>, raised |-> NoRaise]
    ELSE IF env.sc = "fail"
         THEN [events |-> <<"selftest:ok", "sc:fail">> \o signal_suricata(env),
               raised |-> NoRaise]
    ELSE [events |-> <<"selftest:ok">> \o signal_suricata(env), raised |-> NoRaise]

\* the USR2 fallback of suricata_url and suricata_hash (kill runs with
\* check=True; its CalledProcessError is caught by the outer handler)
usr2_fallback(env) ==
    IF env.pid THEN <<IF env.kill THEN "kill:ok" ELSE "kill:fail">>
    ELSE <<"nopid">>

\* suricata_url._reload_suricata
reload_suricata_url(env) ==
    IF ~env.bin THEN [events |-> <<>>, raised |-> "FileNotFoundError"]
    ELSE IF ~env.test THEN [events |-> <<"selftest:fail">>, raised |-> NoRaise]
    ELSE IF env.sc = "ok"
         THEN [events |-> <<"selftest:ok", "sc:ok">>, raised |-> NoRaise]
    ELSE IF env.sc = "fail"
         THEN [events |-> <<"selftest:ok", "sc:fail">> \o usr2_fallback(env),
               raised |-> NoRaise]
    ELSE [events |-> <<"selftest:ok">> \o usr2_fallback(env), raised |-> NoRaise]

\* suricata_hash._reload_suricata
reload_suricata_hash(env) ==
    IF ~env.bin THEN [events |-> <<>>, raised |-> "FileNotFoundError"]
    ELSE IF ~env.test THEN [events |-> <<"selftest:fail">>, raised |-> NoRaise]
    ELSE IF env.sc = "ok"
         THEN [events |-> <<"selftest:ok", "sc:ok">>, raised |-> NoRaise]
    ELSE IF env.sc = "fail"
         THEN [events |-> <<"selftest:ok", "sc:fail">> \o usr2_fallback(env),
               raised |-> NoRaise]
    ELSE [events |-> <<"selftest:ok">> \o usr2_fallback(env), raised |-> NoRaise]

(***************************************************************************)
(* The inputs of the model.                                                *)
(***************************************************************************)
IP_A == <<"1", ".", "1", ".", "1", ".", "1">>
IP_A_OBF == <<"1", "[", ".", "]", "1", ".", "1", ".", "1">>
IP_B_PAD == <<SP, "2", ".", "2", ".", "2", ".", "2">>
IP_BAD == <<"9", "9", "9", ".", "1", ".", "1", ".", "1">>
RawIPs == {IP_A, IP_A_OBF, IP_B_PAD, IP_BAD}

URL_U == <<"h", ":", "/", "/", "a", ".", "b">>
URL_U_OBF == <<"h", ":", "/", "/", "a", "[", ".", "]", "b">>
URL_Q == <<"h", ":", "/", "/", "a", ".", "b", "/", QUOTE, SEMI, "x">>
RawURLs == {URL_U, URL_U_OBF, URL_Q}

HASH_MD5 == [i \in 1..32 |-> "a"]
HASH_MD5_UP == <<SP>> \o [i \in 1..32 |-> "A"]
HASH_BAD == <<"z", "z">>
RawHashes == {HASH_MD5, HASH_MD5_UP, HASH_BAD, <<SP>>}

SeqsUpTo(S, n) == UNION {[1..k -> S] : k \in 0..n}

IPBatches == SeqsUpTo(RawIPs, MaxBatch)
URLBatches == SeqsUpTo(RawURLs, MaxBatch)
HashBatches == SeqsUpTo(RawHashes, MaxBatch)

(***************************************************************************)
(* State.                                                                  *)
(***************************************************************************)
VARIABLES
    shared,   \* whether the three rule paths name one file (the default)
    fs,       \* the files, by path
    call,     \* per caller, the store call it is in
    cyc       \* the cycle (main.job / scheduler.job_ioc) in progress

vars == <<shared, fs, call, cyc>>

Procs == {1, 2}

LIST_PATH == "secbot-hash.list"
Paths == {"secbot.rules", "ip.rules", "url.rules", "hash.rules", LIST_PATH}
RulePaths == Paths \ {LIST_PATH}

\* suricata.RULES_PATH, suricata_url.URL_RULES_PATH, suricata_hash.HASH_RULES_PATH
RULES_PATH == IF shared THEN "secbot.rules" ELSE "ip.rules"
URL_RULES_PATH == IF shared THEN "secbot.rules" ELSE "url.rules"
HASH_RULES_PATH == IF shared THEN "secbot.rules" ELSE "hash.rules"

NoFiles == [p \in Paths |-> Absent]

NoCall == [pc |-> "idle", op |-> "none", batch |-> <<>>, target |-> "none",
           mode |-> "-", lines |-> <<>>, n |-> 0, count |-> 0, added |-> FALSE,
           pre |-> NoFiles, reloaded |-> FALSE, events |-> <<>>,
           raised |-> NoRaise]

NoCycle == [entry |-> "none", phase |-> "idle",
            want |-> [k \in {"ip", "url", "hash"} |-> FALSE],
            called |-> {}, reloads |-> 0, added |-> FALSE, raised |-> NoRaise,
            escaped |-> FALSE]

TotalLines ==
    LET RECURSIVE Sum(_)
        Sum(P) == IF P = {} THEN 0
                  ELSE LET q == CHOOSE q \in P : TRUE
                       IN  Len(fs[q].lines) + Sum(P \ {q})
    IN  Sum(RulePaths)

Quiet == \A p \in Procs : call[p].pc = "idle"

\* a call about to return: its locals are gone, its outcome is left
Ret(c, reloaded, events, exc) ==
    [NoCall EXCEPT !.pc = "ret", !.added = c.added,
                   !.reloaded = reloaded, !.events = events, !.raised = exc]

\* the state a call is left in by an exception
Raise(c, exc) == Ret(c, FALSE, <<>>, exc)

\* where a call goes once the file it had open is written and closed
AfterWrite(c) ==
    IF c.op = "block_hashes" /\ c.target = LIST_PATH
    THEN [c EXCEPT !.pc = "hrule"]
    ELSE [c EXCEPT !.pc = "reload"]

\* a call that goes on to its reload with its lines still to be written
PlannedUnwritten(c, path, plan) ==
    [c EXCEPT !.target = path, !.mode = plan.mode, !.lines = plan.lines,
              !.n = 0, !.count = plan.count, !.pc = "reload"]

\* a call that has read its file and knows what to write to it
Planned(c, path, plan) ==
    LET d == [c EXCEPT !.target = path, !.mode = plan.mode, !.lines = plan.lines,
                       !.n = 0, !.count = plan.count]
    IN  IF plan.lines = <<>> /\ path # LIST_PATH
        THEN [d EXCEPT !.pc = "reload"]
        ELSE [d EXCEPT !.pc = "open"]

\* a call that has found out whether its batch holds anything new
Started(c, path, plan) ==
    Planned([c EXCEPT !.added = (plan.lines # <<>>)], path, plan)

(***************************************************************************)
(* The store calls, step by step.                                          *)
(***************************************************************************)
\* suricata.block -> _write_rules_file, up to the decision of what to write;
\* mkdir may fail
Block(p, ips) ==
    /\ call[p].pc = "idle"
    /\ \E io \in BOOLEAN :
         LET c == [NoCall EXCEPT !.op = "block", !.batch = ips, !.pre = fs]
             plan == write_rules_plan(fs[RULES_PATH], ips)
         IN  call' = [call EXCEPT ![p] =
                        IF io THEN Started(c, RULES_PATH, plan)
                        ELSE Raise(c, "OSError")]
    /\ UNCHANGED <<shared, fs, cyc>>

\* suricata_url.block_urls, up to the decision of what to write
BlockUrls(p, urls) ==
    /\ call[p].pc = "idle"
    /\ \E io \in BOOLEAN :
         LET c == [NoCall EXCEPT !.op = "block_urls", !.batch = urls, !.pre = fs]
             plan == block_urls_plan(fs[URL_RULES_PATH], urls)
         IN  call' = [call EXCEPT ![p] =
                        IF io THEN Started(c, URL_RULES_PATH, plan)
                        ELSE Raise(c, "OSError")]
    /\ UNCHANGED <<shared, fs, cyc>>

\* the values of the hash list file
ListValues(f) == {f.lines[i].val : i \in 1..Len(f.lines)}

\* suricata_hash.block_hashes, up to the opening of the list file
BlockHashes(p, hashes) ==
    /\ call[p].pc = "idle"
    /\ \E io \in BOOLEAN :
         LET c == [NoCall EXCEPT !.op = "block_hashes", !.batch = hashes,
                                 !.pre = fs]
             plan == hash_list_plan(hashes)
             fresh == Range(uniq_hashes(hashes)) \ ListValues(fs[LIST_PATH])
         IN  call' = [call EXCEPT ![p] =
                        IF io THEN [Planned(c, LIST_PATH, plan)
                                      EXCEPT !.added = (fresh # {})]
                        ELSE Raise(c, "OSError")]
    /\ UNCHANGED <<shared, fs, cyc>>

\* suricata_hash.block_hashes, step 3, up to the decision of what to write
HashRule(p) ==
    /\ call[p].pc = "hrule"
    /\ \E io \in BOOLEAN :
         call' = [call EXCEPT ![p] =
                    IF io THEN Planned(call[p], HASH_RULES_PATH,
                                       hash_rule_plan(fs[HASH_RULES_PATH]))
                    ELSE Raise(call[p], "OSError")]
    /\ UNCHANGED <<shared, fs, cyc>>

\* Path.open(mode): "w" creates the file or empties it, "a" leaves it as it is
Open(p) ==
    /\ call[p].pc = "open"
    /\ \/ /\ fs' = [fs EXCEPT ![call[p].target] =
                      IF call[p].mode = "w"
                      THEN [exists |-> TRUE, lines |-> <<>>, older |-> NoOlder]
                      ELSE [@ EXCEPT !.exists = TRUE]]
          /\ call' = [call EXCEPT ![p] =
                        IF call[p].lines = <<>> THEN AfterWrite(call[p])
                        ELSE [call[p] EXCEPT !.pc = "write"]]
       \/ /\ call' = [call EXCEPT ![p] = Raise(call[p], "OSError")]
          /\ UNCHANGED fs
    /\ UNCHANGED <<shared, cyc>>

\* fh.write of one line; the file is closed after the last one
Write(p) ==
    /\ call[p].pc = "write"
    /\ \/ /\ fs' = [fs EXCEPT ![call[p].target].lines =
                      Append(@, call[p].lines[call[p].n + 1])]
          /\ call' = [call EXCEPT ![p] =
                        IF call[p].n + 1 = Len(call[p].lines)
                        THEN AfterWrite([call[p] EXCEPT !.n = @ + 1])
                        ELSE [call[p] EXCEPT !.n = @ + 1]]
       \/ /\ call' = [call EXCEPT ![p] = Raise(call[p], "OSError")]
          /\ UNCHANGED fs
    /\ UNCHANGED <<shared, cyc>>

\* the reload that ends block (only if count), block_urls, block_hashes, flush
Reload(p, env) ==
    /\ call[p].pc = "reload"
    /\ LET c == call[p]
           r == CASE c.op = "block_urls" -> reload_suricata_url(env)
                  [] c.op = "block_hashes" -> reload_suricata_hash(env)
                  [] OTHER -> reload_suricata(env)
       IN  call' = [call EXCEPT ![p] =
                      IF c.op = "block" /\ c.count = 0
                      THEN Ret(c, FALSE, <<>>, NoRaise)
                      ELSE Ret(c, TRUE, r.events, r.raised)]
    /\ UNCHANGED <<shared, fs, cyc>>

\* suricata.flush, up to its reload
Flush(p) ==
    /\ call[p].pc = "idle"
    /\ call' = [call EXCEPT ![p] =
                  [NoCall EXCEPT !.op = "flush", !.pre = fs, !.pc = "reload"]]
    /\ fs' = [fs EXCEPT ![RULES_PATH] = Absent]
    /\ UNCHANGED <<shared, cyc>>

\* the call returns, or its exception reaches the caller
Return(p) ==
    /\ call[p].pc = "ret"
    /\ cyc.entry = "none"
    /\ call' = [call EXCEPT ![p] = NoCall]
    /\ UNCHANGED <<shared, fs, cyc>>

(***************************************************************************)
(* The stores called one call at a time.                                   *)
(***************************************************************************)
\* the default configuration: the three stores write one rules file
Init ==
    /\ shared = TRUE
    /\ fs = NoFiles
    /\ call = [p \in Procs |-> NoCall]
    /\ cyc = NoCycle

\* a call that may add n lines starts only if the files have room for them
CanStart(n) == Quiet /\ cyc.entry = "none" /\ TotalLines + n <= MaxLines

Next ==
    \/ \E ips \in IPBatches : CanStart(Len(ips)) /\ Block(1, ips)
    \/ \E urls \in URLBatches : CanStart(Len(urls)) /\ BlockUrls(1, urls)
    \/ \E hashes \in HashBatches : CanStart(1) /\ BlockHashes(1, hashes)
    \/ CanStart(0) /\ Flush(1)
    \/ HashRule(1)
    \/ Open(1)
    \/ Write(1)
    \/ \E env \in Envs : Reload(1, env)
    \/ Return(1)

Spec == Init /\ [][Next]_vars

(***************************************************************************)
(* The cycles: main.job and scheduler.job_ioc.  A cycle knows, per kind,   *)
(* whether the kind is enabled and its batch is not empty (want), and      *)
(* takes the batch itself from the fetcher when it gets to the kind.       *)
(***************************************************************************)
Kinds == {"ip", "url", "hash"}

\* the order the kinds are handled in
NextPhase(ph) ==
    CASE ph = "ip" -> "url"
      [] ph = "url" -> "hash"
      [] OTHER -> "end"

\* what the fetcher may hand over, per kind (never empty here: see want); its
\* hashes are matches of [A-Fa-f0-9]{32} and the like
HASH_UP == [i \in 1..32 |-> "A"]

FeedIPs == {<<IP_A_OBF>>, <<IP_B_PAD>>}
FeedURLs == {<<URL_U_OBF>>, <<URL_Q>>}
FeedHashes == {<<HASH_MD5>>, <<HASH_UP>>}

\* main.job / scheduler.job_ioc: bracketed dots are replaced in IPs and URLs
normalized(batch) ==
    [i \in 1..Len(batch) |-> Replace(batch[i], <<"[", ".", "]">>, <<".">>)]

\* a cycle starts
Job(entry, want) ==
    /\ Quiet
    /\ cyc.entry = "none"
    /\ TotalLines + Cardinality(Kinds) <= MaxCycleLines
    /\ cyc' = [NoCycle EXCEPT !.entry = entry, !.phase = "ip", !.want = want]
    /\ UNCHANGED <<shared, fs, call>>

\* if settings.enable_suricata and normalized["ip"]: suricata.block(...)
JobBlock(ips) ==
    /\ cyc.phase = "ip"
    /\ cyc.want["ip"]
    /\ Block(1, normalized(ips))

\* a cycle that calls block_urls whatever the flag and the batch are
JobBlockUrlsAnyway(urls) ==
    /\ cyc.phase = "url"
    /\ BlockUrls(1, normalized(urls))

\* if settings.enable_suricata_url and normalized["url"]: block_urls(...)
JobBlockUrls(urls) ==
    /\ cyc.phase = "url"
    /\ cyc.want["url"]
    /\ BlockUrls(1, normalized(urls))

\* if settings.enable_suricata_hash and normalized["hash"]: block_hashes(...)
JobBlockHashes(hashes) ==
    /\ cyc.phase = "hash"
    /\ cyc.want["hash"]
    /\ BlockHashes(1, hashes)

\* the kind is disabled or its batch is empty: on to the next one
JobSkip ==
    /\ cyc.phase \in Kinds
    /\ ~cyc.want[cyc.phase]
    /\ Quiet
    /\ cyc' = [cyc EXCEPT !.phase = NextPhase(@)]
    /\ UNCHANGED <<shared, fs, call>>

\* settings.enable_suricata_url / settings.enable_suricata_hash: config.Settings
\* declares enable_ipset and enable_suricata only, so with the settings of the
\* repository the lookup raises AttributeError; a configuration that declares
\* the two flags gives a boolean (want).  The exception ends the cycle like
\* any other.
JobLookupFails ==
    /\ cyc.phase \in {"url", "hash"}
    /\ Quiet
    /\ cyc' = [cyc EXCEPT !.phase = "end", !.raised = "AttributeError",
                          !.escaped = (cyc.entry = "job_ioc")]
    /\ UNCHANGED <<shared, fs, call>>

\* the store call comes back to the cycle.  An exception ends the cycle:
\* main.job catches and logs it, scheduler.job_ioc lets it out.
JobReturn ==
    /\ call[1].pc = "ret"
    /\ cyc.entry # "none"
    /\ LET c == call[1]
           d == [cyc EXCEPT !.called = @ \cup {cyc.phase},
                            !.reloads = @ + (IF c.reloaded THEN 1 ELSE 0),
                            !.added = (@ \/ c.added),
                            !.raised = c.raised]
       IN  cyc' = IF c.raised = NoRaise THEN [d EXCEPT !.phase = NextPhase(@)]
                  ELSE [d EXCEPT !.phase = "end",
                                 !.escaped = (cyc.entry = "job_ioc")]
    /\ call' = [call EXCEPT ![1] = NoCall]
    /\ UNCHANGED <<shared, fs>>

\* the cycle is over
JobEnd ==
    /\ cyc.phase = "end"
    /\ cyc' = NoCycle
    /\ UNCHANGED <<shared, fs, call>>

NextCycle ==
    \/ \E entry \in {"job", "job_ioc"}, want \in [Kinds -> BOOLEAN] :
          Job(entry, want)
    \/ \E ips \in FeedIPs : JobBlock(ips)
    \/ \E urls \in FeedURLs : JobBlockUrls(urls)
    \/ \E hashes \in FeedHashes : JobBlockHashes(hashes)
    \/ JobSkip
    \/ JobLookupFails
    \/ HashRule(1)
    \/ Open(1)
    \/ Write(1)
    \/ \E env \in Envs : Reload(1, env)
    \/ JobReturn
    \/ JobEnd

SpecCycle == Init /\ [][NextCycle]_vars
(***************************************************************************)
(* The stores on files that earlier runs have grown: the rules file holds  *)
(* IP lines, or URL lines, up to one short of the next kind's base.        *)
(***************************************************************************)
GrownIP == BASE_SID_URL - BASE_SID - 1
GrownURL == BASE_SID_HASH - BASE_SID_URL - 1

InitGrown ==
    /\ shared = TRUE
    /\ \E older \in {[ip |-> GrownIP, url |-> 0], [ip |-> 0, url |-> GrownURL]} :
         fs = [NoFiles EXCEPT !["secbot.rules"] =
                 [exists |-> TRUE, lines |-> <<>>, older |-> older]]
    /\ call = [p \in Procs |-> NoCall]
    /\ cyc = NoCycle

SpecGrown == InitGrown /\ [][Next]_vars

(***************************************************************************)
(* Two callers at once (a manual run overlapping a scheduled one): the     *)
(* calls of block and block_urls interleave step by step on a rules file   *)
(* that is there already, so that both read it and append to it.  The      *)
(* stores take no lock.                                                    *)
(***************************************************************************)
ConcIPs == {<<IP_A>>, <<IP_B_PAD>>}
ConcURLs == {<<URL_U>>, <<URL_U_OBF>>}

InitConc ==
    /\ shared = TRUE
    /\ fs = [NoFiles EXCEPT !["secbot.rules"] =
               [exists |-> TRUE, lines |-> <<>>, older |-> NoOlder]]
    /\ call = [p \in Procs |-> NoCall]
    /\ cyc = NoCycle

NextConc ==
    \E p \in Procs :
        \/ \E ips \in ConcIPs : TotalLines < MaxLines /\ Block(p, ips)
        \/ \E urls \in ConcURLs : TotalLines < MaxLines /\ BlockUrls(p, urls)
        \/ Open(p)
        \/ Write(p)
        \/ \E env \in Envs : Reload(p, env)
        \/ Return(p)

SpecConc == InitConc /\ [][NextConc]_vars

(***************************************************************************)
(* The IP store called with addresses that carry a zone.                   *)
(***************************************************************************)
IP_ZONE == <<"f", "e", "8", "0", ":", ":", "1", "%", "a", SP, "b">>
ZoneBatches == SeqsUpTo({IP_A, IP_BAD, IP_ZONE}, MaxBatch)

NextZone ==
    \/ \E ips \in ZoneBatches : CanStart(Len(ips)) /\ Block(1, ips)
    \/ Open(1)
    \/ Write(1)
    \/ \E env \in Envs : Reload(1, env)
    \/ Return(1)

SpecZone == Init /\ [][NextZone]_vars

(***************************************************************************)
(* secbot.defense.ipset.  A call keeps the commands it has run in events   *)
(* and the payload it hands to 'restore' in lines.  The collaborator is    *)
(* the ipset binary: present or not, each command succeeding or not.       *)
(***************************************************************************)
SET_NAME == <<"secbot_bad_ips">>

\* the text of one line of the payload
AddRule(ip) == <<"add", SP>> \o SET_NAME \o <<SP>> \o ip

\* the rules with the blank addresses of the batch left in
ipset_rules_unfiltered(ips) ==
    [i \in 1..Len(ips) |-> Line("add", AddRule(Strip(ips[i])), 0)]

\* ipset.block: rules = [f"add {SET_NAME} {ip.strip()}" for ip in ips if ip.strip()]
ipset_rules(ips) ==
    LET stripped == [i \in 1..Len(ips) |-> Strip(ips[i])]
        kept == SelectSeq(stripped, LAMBDA ip : ip # <<>>)
    IN  [i \in 1..Len(kept) |-> Line("add", AddRule(kept[i]), 0)]

\* ipset.ensure_set with _run_ipset_cmd: 'list', and 'create' if that fails
ensure_set(env) ==
    IF ~env.bin THEN [events |-> <<>>, raised |-> "RuntimeError"]
    ELSE IF env.list THEN [events |-> <<"list:ok">>, raised |-> NoRaise]
    ELSE IF env.create
         THEN [events |-> <<"list:fail", "create:ok">>, raised |-> NoRaise]
    ELSE [events |-> <<"list:fail", "create:fail">>,
          raised |-> "CalledProcessError"]

\* what the ipset binary may do
IpsetEnvs == [bin : BOOLEAN, list : BOOLEAN, create : BOOLEAN, run : BOOLEAN]

IpsetBatches ==
    SeqsUpTo({IP_A, IP_A_OBF, IP_B_PAD, IP_BAD, <<SP>>, <<>>}, MaxBatch)

\* ipset.block is called
IpsetBlock(p, ips) ==
    /\ call[p].pc = "idle"
    /\ call' = [call EXCEPT ![p] =
                  [NoCall EXCEPT !.op = "ipset_block", !.batch = ips,
                                 !.pc = "ensure"]]
    /\ UNCHANGED <<shared, fs, cyc>>

\* ipset.flush is called
IpsetFlush(p) ==
    /\ call[p].pc = "idle"
    /\ call' = [call EXCEPT ![p] =
                  [NoCall EXCEPT !.op = "ipset_flush", !.pc = "ensure"]]
    /\ UNCHANGED <<shared, fs, cyc>>

\* ensure_set(), then the payload is put together; block returns if it is empty
IpsetEnsure(p, env) ==
    /\ call[p].pc = "ensure"
    /\ LET c == call[p]
           r == ensure_set(env)
           rules == IF c.op = "ipset_block" THEN ipset_rules(c.batch) ELSE <<>>
       IN  call' = [call EXCEPT ![p] =
                      IF r.raised # NoRaise THEN Ret(c, FALSE, r.events, r.raised)
                      ELSE IF c.op = "ipset_block" /\ rules = <<>>
                           THEN Ret(c, FALSE, r.events, NoRaise)
                      ELSE [c EXCEPT !.pc = "run", !.events = r.events,
                                     !.lines = rules]]
    /\ UNCHANGED <<shared, fs, cyc>>

\* _run_ipset_cmd(["restore", "-!"], input_=payload) / (["flush", SET_NAME])
IpsetRun(p, env) ==
    /\ call[p].pc = "run"
    /\ LET c == call[p]
           cmd == IF c.op = "ipset_block" THEN "restore" ELSE "flush"
       IN  call' = [call EXCEPT ![p] =
                      IF ~env.bin THEN Ret(c, FALSE, c.events, "RuntimeError")
                      ELSE IF env.run
                           THEN Ret(c, FALSE, Append(c.events, cmd), NoRaise)
                      ELSE Ret(c, FALSE, Append(c.events, cmd),
                               "CalledProcessError")]
    /\ UNCHANGED <<shared, fs, cyc>>

NextIpset ==
    \/ \E ips \in IpsetBatches : Quiet /\ IpsetBlock(1, ips)
    \/ Quiet /\ IpsetFlush(1)
    \/ \E env \in IpsetEnvs : IpsetEnsure(1, env)
    \/ \E env \in IpsetEnvs : IpsetRun(1, env)
    \/ Return(1)

SpecIpset == Init /\ [][NextIpset]_vars

(***************************************************************************)
(* secbot.utils.retry.  A call of the wrapper keeps attempts in count,     *)
(* _attempt in n and the outcome of each invocation of the wrapped         *)
(* function in events: "ok" (it returned), "exc" (it raised one of the     *)
(* configured exceptions), "other" (it raised another exception).          *)
(***************************************************************************)
Outcomes == {"ok", "exc", "other"}

\* the wrapper that gives up one failure late
RetryTryLate(p, out) ==
    /\ call[p].pc = "try"
    /\ LET c == [call[p] EXCEPT !.events = Append(@, out)]
       IN  call' = [call EXCEPT ![p] =
                      CASE out = "ok" -> [c EXCEPT !.pc = "ret"]
                        [] out = "other" ->
                             [c EXCEPT !.pc = "ret", !.raised = "BaseException"]
                        [] OTHER ->
                             IF c.n + 1 > c.count
                             THEN [c EXCEPT !.n = @ + 1, !.pc = "ret",
                                            !.raised = "Exception"]
                             ELSE [c EXCEPT !.n = @ + 1, !.pc = "sleep"]]
    /\ UNCHANGED <<shared, fs, cyc>>

\* the wrapped function is called through wrapper: _attempt = 0
RetryCall(p, attempts) ==
    /\ call[p].pc = "idle"
    /\ call' = [call EXCEPT ![p] =
                  [NoCall EXCEPT !.op = "retry", !.count = attempts, !.n = 0,
                                 !.pc = "try"]]
    /\ UNCHANGED <<shared, fs, cyc>>

\* one turn of the loop: func is invoked; its result is returned, an exception
\* that is not configured goes through, a configured one is counted and, with
\* _attempt >= attempts, raised again
RetryTry(p, out) ==
    /\ call[p].pc = "try"
    /\ LET c == [call[p] EXCEPT !.events = Append(@, out)]
       IN  call' = [call EXCEPT ![p] =
                      CASE out = "ok" -> [c EXCEPT !.pc = "ret"]
                        [] out = "other" ->
                             [c EXCEPT !.pc = "ret", !.raised = "BaseException"]
                        [] OTHER ->
                             IF c.n + 1 >= c.count
                             THEN [c EXCEPT !.n = @ + 1, !.pc = "ret",
                                            !.raised = "Exception"]
                             ELSE [c EXCEPT !.n = @ + 1, !.pc = "sleep"]]
    /\ UNCHANGED <<shared, fs, cyc>>

\* time.sleep(max(sleep_for, 0)) is over
RetrySleep(p) ==
    /\ call[p].pc = "sleep"
    /\ call' = [call EXCEPT ![p].pc = "try"]
    /\ UNCHANGED <<shared, fs, cyc>>

NextRetry ==
    \/ \E attempts \in 1..MaxAttempts : Quiet /\ RetryCall(1, attempts)
    \/ \E out \in Outcomes : RetryTry(1, out)
    \/ RetrySleep(1)
    \/ Return(1)

\* the wrapped function and the sleep come to an end
SpecRetry ==
    /\ Init
    /\ [][NextRetry]_vars
    /\ WF_vars(\E out \in Outcomes : RetryTry(1, out))
    /\ WF_vars(RetrySleep(1))

(***************************************************************************)
(* The IP store merged and flushed in turn.  A call that has begun goes    *)
(* on to its end.                                                          *)
(***************************************************************************)
IP_B == <<"2", ".", "2", ".", "2", ".", "2">>
FlushIPs == {<<IP_A>>, <<IP_B_PAD>>, <<IP_A, IP_B_PAD>>}

NextFlush ==
    \/ \E ips \in FlushIPs : CanStart(Len(ips)) /\ Block(1, ips)
    \/ CanStart(0) /\ Flush(1)
    \/ Open(1)
    \/ Write(1)
    \/ \E env \in Envs : Reload(1, env)
    \/ Return(1)

SpecFlush ==
    /\ Init
    /\ [][NextFlush]_vars
    /\ WF_vars(Open(1) \/ Write(1) \/ (\E env \in Envs : Reload(1, env))
                  \/ Return(1))

(***************************************************************************)
(* scheduler.job_news_and_advisories, run again and again on one calendar  *)
(* day.  The day's file of sent hashes and the mails that have gone out    *)
(* are kept as two files: the hashes as the lines of the first, the mails  *)
(* (kind and items) as the lines of the second.                            *)
(***************************************************************************)
SENT_FILE == "last_sent.txt"
OUTBOX == "outbox"
NewsPaths == {SENT_FILE, OUTBOX}

NEWS_1 == [title |-> <<"n", "1">>, link |-> <<"l", "1">>]
NEWS_2 == [title |-> <<"n", "2">>, link |-> <<"l", "2">>]
ADV_1 == [title |-> <<"a", "1">>, link |-> <<"l", "3">>]

\* what fetch_news and fetch_advisories may return
NewsFeeds == SeqsUpTo({NEWS_1, NEWS_2}, MaxBatch)
AdvisoryFeeds == {<<>>, <<ADV_1>>}

\* compute_hash: the SHA-256 digest of the key, one value per key
compute_hash(val) == <<"sha256:">> \o val

\* item.title + "|" + item.link
news_key(item) == item.title \o <<"|">> \o item.link

\* the loop over news_items: the items whose hash is not in sent_hashes, and
\* sent_hashes with their hashes added (kept in the order of insertion)
RECURSIVE filter_news(_, _)
filter_news(items, sent_hashes) ==
    LET keep(item, r) == [r EXCEPT !.filtered = <<item>> \o @]
        step(item, h) ==
            IF h \in Range(sent_hashes) THEN filter_news(Tail(items), sent_hashes)
            ELSE keep(item, filter_news(Tail(items), Append(sent_hashes, h)))
    IN  IF items = <<>> THEN [filtered |-> <<>>, sent |-> sent_hashes]
        ELSE step(Head(items), compute_hash(news_key(Head(items))))

\* the job, up to its first send: the file is read and the items are
\* filtered.  The loop over the advisories reads item.id, which the Advisory
\* class does not have: a fetch that returns an advisory ends the job there.
NewsJob(p, news_items, advisories_items) ==
    /\ call[p].pc = "idle"
    /\ Len(fs[OUTBOX].lines) + 2 <= MaxMails
    /\ LET sent_hashes == IF fs[SENT_FILE].exists THEN fs[SENT_FILE].lines ELSE <<>>
           f == filter_news(news_items, sent_hashes)
       IN  call' = [call EXCEPT ![p] =
                      IF advisories_items # <<>> THEN Raise(NoCall, "AttributeError")
                      ELSE [NoCall EXCEPT !.op = "job_news", !.pc = "send_news",
                                          !.batch = f.filtered, !.lines = f.sent]]
    /\ UNCHANGED <<shared, fs, cyc>>

\* send_security_news(filtered_news): the mail goes out, or the send raises
SendNews(p) ==
    /\ call[p].pc = "send_news"
    /\ \/ /\ fs' = [fs EXCEPT ![OUTBOX].lines =
                      Append(@, [kind |-> "news", items |-> call[p].batch])]
          /\ call' = [call EXCEPT ![p].pc = "send_advisories"]
       \/ /\ call' = [call EXCEPT ![p] = Raise(call[p], "SMTPException")]
          /\ UNCHANGED fs
    /\ UNCHANGED <<shared, cyc>>

\* send_advisories(filtered_advisories), the list being empty by now
SendAdvisories(p) ==
    /\ call[p].pc = "send_advisories"
    /\ \/ /\ fs' = [fs EXCEPT ![OUTBOX].lines =
                      Append(@, [kind |-> "advisories", items |-> <<>>])]
          /\ call' = [call EXCEPT ![p].pc = "persist"]
       \/ /\ call' = [call EXCEPT ![p] = Raise(call[p], "SMTPException")]
          /\ UNCHANGED fs
    /\ UNCHANGED <<shared, cyc>>

\* the hashes are written back to the day's file, in the order the set
\* gives them in; or the file cannot be opened
Persist(p) ==
    /\ call[p].pc = "persist"
    /\ \/ /\ \E order \in [1..Len(call[p].lines) -> Range(call[p].lines)] :
                /\ Range(order) = Range(call[p].lines)
                /\ fs' = [fs EXCEPT ![SENT_FILE] =
                            [exists |-> TRUE, lines |-> order, older |-> NoOlder]]
          /\ call' = [call EXCEPT ![p] = Ret(call[p], FALSE, <<>>, NoRaise)]
       \/ /\ call' = [call EXCEPT ![p] = Raise(call[p], "OSError")]
          /\ UNCHANGED fs
    /\ UNCHANGED <<shared, cyc>>

InitNews ==
    /\ shared = TRUE
    /\ fs = [path \in NewsPaths |-> Absent]
    /\ call = [p \in Procs |-> NoCall]
    /\ cyc = NoCycle

NextNews ==
    \/ \E news_items \in NewsFeeds, advisories_items \in AdvisoryFeeds :
          NewsJob(1, news_items, advisories_items)
    \/ SendNews(1)
    \/ SendAdvisories(1)
    \/ Persist(1)
    \/ Return(1)

SpecNews == InitNews /\ [][NextNews]_vars

(***************************************************************************)
(* What the claims speak of.                                               *)
(***************************************************************************)
Merges == {"block", "block_urls", "block_hashes"}

\* the call has written and closed its files; only the reload is left
MergeWritten(c) == c.pc = "reload" /\ c.op \in Merges

\* the rule lines of one kind in a file, in file order
LinesOf(f, kind) == SelectSeq(f.lines, LAMBDA l : l.kind = kind)

\* the identifiers the lines of a file give a value of a kind
SidsOf(f, kind, val) ==
    {f.lines[i].sid : i \in {j \in 1..Len(f.lines) :
                               f.lines[j].kind = kind /\ f.lines[j].val = val}}

\* the values a kind's lines of a file were written for
ValuesOf(f, kind) ==
    {f.lines[i].val : i \in {j \in 1..Len(f.lines) : f.lines[j].kind = kind}}

\* what a call of op with the batch would write to the files as they are now
WouldWrite(op, batch) ==
    CASE op = "block" -> write_rules_plan(fs[RULES_PATH], batch).lines
      [] op = "block_urls" -> block_urls_plan(fs[URL_RULES_PATH], batch).lines
      [] OTHER -> hash_rule_plan(fs[HASH_RULES_PATH]).lines

\* C1: a merge called again with the batch it has just written adds no rule
\* line (every value of the batch is found in the file: the file stays as it
\* is), and, for the hash store, writes the list file it finds
C1_Idempotent ==
    \A p \in Procs :
        MergeWritten(call[p]) =>
            /\ WouldWrite(call[p].op, call[p].batch) = <<>>
            /\ call[p].op = "block_hashes" =>
                 hash_list_plan(call[p].batch).lines = fs[LIST_PATH].lines

\* C2: a step of a merge leaves every value that has an identifier in a rules
\* file with that identifier, and no other
C2_StableIds ==
    [][\A path \in RulePaths, kind \in {"ip", "url", "hash"} :
          \A val \in ValuesOf(fs[path], kind) :
              (\A p \in Procs : call'[p].op # "flush")
                  => SidsOf(fs'[path], kind, val) = SidsOf(fs[path], kind, val)]_vars

\* the base of a kind and the identifiers of its older lines in a file
BaseOf(kind) ==
    CASE kind = "ip" -> BASE_SID [] kind = "url" -> BASE_SID_URL
      [] OTHER -> BASE_SID_HASH

OlderSids(f, kind) ==
    IF kind = "hash" THEN {}
    ELSE (BaseOf(kind) + 1)..(BaseOf(kind) + f.older[kind])

\* a file has a line of the kind with the identifier
HasSid(f, kind, sid) ==
    \/ \E i \in 1..Len(f.lines) : f.lines[i].kind = kind /\ f.lines[i].sid = sid
    \/ sid \in OlderSids(f, kind)

\* C3: no identifier is carried by rule lines of two kinds, whatever files they
\* are in
C3_NoCrossKind ==
    \A p1 \in RulePaths, p2 \in RulePaths :
        \A i \in 1..Len(fs[p1].lines) :
            \A kind \in Kinds \ {fs[p1].lines[i].kind} :
                ~HasSid(fs[p2], kind, fs[p1].lines[i].sid)

\* C4: in a rules file no two lines of a kind carry the same identifier (so
\* none is attached to two values)
C4_UniqueInKind ==
    \A path \in RulePaths, kind \in Kinds :
        LET ls == LinesOf(fs[path], kind)
        IN  /\ \A i \in 1..Len(ls), j \in 1..Len(ls) :
                   i # j => ls[i].sid # ls[j].sid
            /\ \A i \in 1..Len(ls) : ls[i].sid \notin OlderSids(fs[path], kind)

\* every value of the batch is in the file the call found
AllPresent(c) ==
    CASE c.op = "block" ->
           \A i \in 1..Len(c.batch) :
               normalize_ip(c.batch[i]) \in Range(existing_ips(c.pre[RULES_PATH]))
      [] c.op = "block_urls" ->
           \A i \in 1..Len(c.batch) :
               Strip(c.batch[i]) \in existing_urls(c.pre[URL_RULES_PATH])
      [] OTHER ->
           /\ \A i \in 1..Len(c.batch) :
                  Lower(Strip(c.batch[i])) \in ListValues(c.pre[LIST_PATH])
           /\ hash_rule_plan(c.pre[HASH_RULES_PATH]).lines = <<>>

\* C5: a merge whose batch is empty, or holds only values the file has, leaves
\* the files as it found them and ends without a reload
C5_NoopSkip ==
    [][\A p \in Procs :
          (MergeWritten(call[p]) /\ (call[p].batch = <<>> \/ AllPresent(call[p])))
              => (fs = call[p].pre /\ ~call'[p].reloaded)]_vars

\* C6: a cycle invokes the reload at most once, and a cycle that has ended
\* invoked it only if one of its kinds added an entry
C6_ReloadOncePerCycle ==
    /\ cyc.reloads <= 1
    /\ (cyc.phase = "end" /\ cyc.reloads >= 1) => cyc.added

\* the requests that make the engine load the rules
ReloadRequests == {"sc:ok", "sc:fail", "kill:ok", "kill:fail"}

\* C7: a reload issues a socket or signal request only after its self-test
\* has passed, and none at all if its self-test has failed
C7_SelfTestGate ==
    \A p \in Procs :
        LET ev == call[p].events
        IN  /\ \A i \in 1..Len(ev) :
                   ev[i] \in ReloadRequests => (i > 1 /\ ev[1] = "selftest:ok")
            /\ ("selftest:fail" \in Range(ev)) =>
                   \A j \in 1..Len(ev) : ev[j] \notin ReloadRequests

\* a reload whose self-test failed has ended
C7_Witness ==
    \E p \in Procs :
        /\ call[p].pc = "ret"
        /\ call[p].reloaded
        /\ call[p].events = <<"selftest:fail">>

\* C8: no exception of a store call leaves the entry point of a cycle
C8_NoEscape == ~cyc.escaped

\* C9: a cycle that a store call's exception has been raised in still calls
\* the store of every kind that is enabled and has a batch
C9_Isolation ==
    (cyc.phase = "end" /\ cyc.raised # NoRaise) =>
        \A k \in Kinds : cyc.want[k] => k \in cyc.called

\* the lines a file holds once the call has written it
FinalLines(c, path) ==
    CASE c.op = "block" /\ path = RULES_PATH ->
           c.pre[path].lines \o write_rules_plan(c.pre[path], c.batch).lines
      [] c.op = "block_urls" /\ path = URL_RULES_PATH ->
           c.pre[path].lines \o block_urls_plan(c.pre[path], c.batch).lines
      [] c.op = "block_hashes" /\ path = LIST_PATH ->
           hash_list_plan(c.batch).lines
      [] c.op = "block_hashes" /\ path = HASH_RULES_PATH ->
           c.pre[path].lines \o hash_rule_plan(c.pre[path]).lines
      [] OTHER -> c.pre[path].lines

\* C10: while a merge writes, every file reads as it did before the merge or
\* as it does after it
C10_AtomicWrites ==
    \A p \in Procs :
        (call[p].op \in Merges /\ call[p].pc \in {"open", "write", "hrule"}) =>
            \A path \in Paths :
                \/ fs[path].lines = call[p].pre[path].lines
                \/ fs[path].lines = FinalLines(call[p], path)

\* C11: with two calls overlapping, a rules file still has no two lines of a
\* kind with the same identifier and no value on more than one line
C11_ConcurrentSafe ==
    \A path \in RulePaths, kind \in Kinds :
        LET ls == LinesOf(fs[path], kind)
        IN  \A i \in 1..Len(ls), j \in 1..Len(ls) :
                i # j => (ls[i].sid # ls[j].sid /\ ls[i].val # ls[j].val)

\* C12: a step of a merge leaves what a rules file held as the head of what
\* it holds, and every line it adds is for a value the kind had no line for
\* when the call began
C12_AppendOnly ==
    [][\A p \in Procs :
          (call[p].op \in Merges /\ call[p].pc \in {"open", "write"}) =>
              \A path \in RulePaths :
                  /\ IsPrefix(fs[path].lines, fs'[path].lines)
                  /\ \A i \in (Len(fs[path].lines) + 1)..Len(fs'[path].lines) :
                         fs'[path].lines[i].val \notin
                             ValuesOf(call[p].pre[path], fs'[path].lines[i].kind)]_vars

\* C13: what the stores read back from a rules file is what was written to
\* it: the addresses of its IP lines, each at the position its identifier
\* names, and the URLs of its URL lines
C13_RoundTrip ==
    \A path \in RulePaths :
        LET f == fs[path]
        IN  /\ Range(existing_ips(f)) = ValuesOf(f, "ip")
            /\ \A i \in 1..Len(existing_ips(f)) :
                   SidsOf(f, "ip", existing_ips(f)[i]) = {BASE_SID + f.older.ip + i}
            /\ existing_urls(f) = ValuesOf(f, "url")

\* the addresses of a batch that are well-formed, as the store writes them
ValidIPs(batch) == {normalize_ip(batch[i]) : i \in 1..Len(batch)} \ {None}

\* C14: a block call that has written its file has added one line for each
\* distinct well-formed address of the batch that the file had no line for,
\* and nothing else, whatever malformed addresses the batch holds
C14_InvalidIsolated ==
    \A p \in Procs :
        (MergeWritten(call[p]) /\ call[p].op = "block") =>
            LET pre == call[p].pre[RULES_PATH].lines
                now == fs[RULES_PATH].lines
                new == ValidIPs(call[p].batch)
                          \ ValuesOf(call[p].pre[RULES_PATH], "ip")
            IN  /\ IsPrefix(pre, now)
                /\ Len(now) - Len(pre) = Cardinality(new)
                /\ {now[i].val : i \in (Len(pre) + 1)..Len(now)} = new

\* the file has a 'drop ip <ip> any <> any any' rule for the address
HasDropRule(f, ip) ==
    \E i \in 1..Len(f.lines) :
        IsPrefix(<<"drop", SP, "ip", SP>> \o ip
                   \o <<SP, "any", SP, "<>", SP, "any", SP, "any", SP>>,
                 Render(f.lines[i]))

\* C15: a block call that brings a new address and has got past its writes
\* invokes the reload in its next step, once, and by then the rules file has
\* a 'drop ip' rule for every well-formed address of the batch
C15_BlockWritesThenReloads ==
    [][\A p \in Procs :
          (call[p].op = "block" /\ call[p].pc = "reload" /\ call[p].added) =>
              /\ call'[p].pc = "ret" /\ call'[p].reloaded
              /\ fs' = fs
              /\ \A ip \in ValidIPs(call[p].batch) : HasDropRule(fs[RULES_PATH], ip)]_vars

\* a block call of two new addresses has reloaded, both rules in the file
C15_Witness ==
    \E p \in Procs :
        /\ call[p].pc = "ret" /\ call[p].reloaded /\ call[p].added
        /\ HasDropRule(fs[RULES_PATH], IP_A)
        /\ HasDropRule(fs[RULES_PATH], <<"2", ".", "2", ".", "2", ".", "2">>)
        /\ Len(fs[RULES_PATH].lines) = 2

\* the addresses of a batch that are not blank, stripped, one per occurrence
NonBlank(ips) ==
    SelectSeq([i \in 1..Len(ips) |-> Strip(ips[i])], LAMBDA ip : ip # <<>>)

\* C16: ipset.block runs 'restore' only with the set ensured, only once, only
\* for a batch that has an address that is not blank, and with a payload of
\* one 'add secbot_bad_ips <ip>' line for each such address; a call of
\* block that ends without an exception for a batch with such an address
\* has run it
C16_IpsetRestore ==
    [][\A p \in Procs :
          call[p].op = "ipset_block" =>
              /\ "restore" \notin Range(call[p].events)
              /\ ("restore" \in Range(call'[p].events)) =>
                     /\ call[p].events \in {<<"list:ok">>, <<"list:fail", "create:ok">>}
                     /\ call'[p].events = Append(call[p].events, "restore")
                     /\ NonBlank(call[p].batch) # <<>>
                     /\ Len(call[p].lines) = Len(NonBlank(call[p].batch))
                     /\ \A i \in 1..Len(call[p].lines) :
                            Render(call[p].lines[i]) =
                                <<"add", SP, "secbot_bad_ips", SP>>
                                    \o NonBlank(call[p].batch)[i]
              /\ (call'[p].pc = "ret" /\ call'[p].raised = NoRaise) =>
                     (("restore" \in Range(call'[p].events))
                         <=> (NonBlank(call[p].batch) # <<>>))]_vars

\* a call of ipset.block has created the set and run restore
C16_Witness ==
    \E p \in Procs :
        /\ call[p].pc = "ret"
        /\ call[p].raised = NoRaise
        /\ call[p].events = <<"list:fail", "create:ok", "restore">>

\* a call of the retry wrapper has ended
RetryEnded(c) == c.op = "retry" /\ c.pc = "ret"

\* C17: a retry wrapper never invokes its function more than attempts times;
\* it lets a configured exception out only after exactly attempts
\* invocations that all raised one; it returns a result at the first
\* invocation that gives one; and every call of it ends
C17_Retry ==
    /\ [](\A p \in Procs :
            LET c == call[p]
                failed(k) == \A i \in 1..k : c.events[i] = "exc"
            IN  c.op = "retry" =>
                  /\ Len(c.events) <= c.count
                  /\ (RetryEnded(c) /\ c.raised = "Exception") =>
                         (Len(c.events) = c.count /\ failed(c.count))
                  /\ (RetryEnded(c) /\ c.raised = NoRaise) =>
                         /\ c.events[Len(c.events)] = "ok"
                         /\ failed(Len(c.events) - 1)
                  /\ (c.pc \in {"try", "sleep"}) => failed(Len(c.events)))
    /\ \A p \in Procs : (call[p].op = "retry") ~> RetryEnded(call[p])

\* a wrapper with three attempts has let the third exception out
C17_Witness ==
    \E p \in Procs :
        /\ RetryEnded(call[p])
        /\ call[p].raised = "Exception"
        /\ call[p].count = 3
        /\ call[p].events = <<"exc", "exc", "exc">>

\* the rules file has an IP line that gives the address the identifier
IPLine(ip, sid) == sid \in SidsOf(fs[RULES_PATH], "ip", ip)

\* C18: an identifier that the rules file has once given an address is never
\* given another address later, whatever merges and flushes come between
C18_NeverReused ==
    \A sid \in {BASE_SID + 1, BASE_SID + 2} :
        \A v1 \in {IP_A, IP_B} : \A v2 \in {IP_A, IP_B} \ {v1} :
            [](IPLine(v1, sid) => []~IPLine(v2, sid))

\* what the signal fallback leaves in the record of a reload
SignalOutcomes == {"kill:ok", "kill:fail", "nopid"}

\* C19: a reload whose self-test has passed asks the socket tool first if it
\* is there; a request that succeeds ends the reload with no signal, a request
\* that fails raises nothing and is followed by the signal fallback, and with
\* no tool the fallback comes straight after the self-test; socket and signal
\* never both succeed in one reload
C19_FallbackOrder ==
    [][\A p \in Procs : \A env \in Envs :
          (Reload(p, env) /\ call'[p].reloaded /\ env.bin /\ env.test) =>
              LET ev == call'[p].events
              IN  /\ ev[1] = "selftest:ok"
                  /\ call'[p].raised = NoRaise
                  /\ env.sc = "ok" => ev = <<"selftest:ok", "sc:ok">>
                  /\ env.sc = "fail" =>
                         /\ Len(ev) = 3 /\ ev[2] = "sc:fail"
                         /\ ev[3] \in SignalOutcomes
                  /\ env.sc = "none" => (Len(ev) = 2 /\ ev[2] \in SignalOutcomes)
                  /\ ~("sc:ok" \in Range(ev) /\ "kill:ok" \in Range(ev))]_vars

\* the socket request of a URL reload has failed and the signal has gone out
C19_Witness ==
    \E p \in Procs :
        /\ call[p].pc = "ret" /\ call[p].reloaded /\ call[p].raised = NoRaise
        /\ call[p].events = <<"selftest:ok", "sc:fail", "kill:ok">>
        /\ \E i \in 1..Len(fs[RULES_PATH].lines) : fs[RULES_PATH].lines[i].kind = "url"

\* C20: when a store call of a cycle comes back from a reload that reached
\* the signal fallback with the pid file absent, no signal has been sent, the
\* caller has been given the failure, and the cycle ends there without
\* another store call (and so without another reload)
C20_PidMissingTerminal ==
    [][(JobReturn /\ "nopid" \in Range(call[1].events)) =>
          /\ "kill:ok" \notin Range(call[1].events)
          /\ "kill:fail" \notin Range(call[1].events)
          /\ call[1].raised # NoRaise
          /\ cyc'.phase = "end"]_vars

\* the addresses of a batch that the file had no line for, cleaned, each once,
\* in the order they first appear in the batch
NewInOrder(c) ==
    SelectSeq(new_ips(c.batch),
              LAMBDA ip : ip \notin ValuesOf(c.pre[RULES_PATH], "ip"))

\* the number of IP entries the file held when the call began
EntriesBefore(c) ==
    c.pre[RULES_PATH].older.ip + Len(LinesOf(c.pre[RULES_PATH], "ip"))

\* C21: a block call that has written its file has added, after the lines the
\* file held, one line for each new well-formed address of the batch, in the
\* order of first appearance, the i-th with the identifier base + n + i, n
\* being the number of IP entries the file held; it has added nothing else
C21_BatchOrder ==
    \A p \in Procs :
        (MergeWritten(call[p]) /\ call[p].op = "block") =>
            fs[RULES_PATH].lines =
                call[p].pre[RULES_PATH].lines
                  \o [i \in 1..Len(NewInOrder(call[p])) |->
                        Line("ip", NewInOrder(call[p])[i],
                             BASE_SID + EntriesBefore(call[p]) + i)]

\* C22: a step in which a merge is left by an I/O error leaves every file with
\* the lines the merge found in it: no line of the batch stays in a rules file, and the
\* hash list file is not left rewritten with the rule file as it was
C22_UnchangedOnIOError ==
    [][\A p \in Procs :
          (call[p].op \in Merges /\ call'[p].raised = "OSError") =>
              \A path \in Paths : fs'[path].lines = call[p].pre[path].lines]_vars

\* C23: a block_hashes call that has written its files leaves the list file
\* sorted and without duplicates, holding the values of its batch and every
\* value the list file held when the call began
C23_HashHistory ==
    \A p \in Procs :
        (MergeWritten(call[p]) /\ call[p].op = "block_hashes") =>
            LET now == fs[LIST_PATH].lines
            IN  /\ \A i \in 1..(Len(now) - 1) : StrLess(now[i].val, now[i + 1].val)
                /\ Range(uniq_hashes(call[p].batch)) \subseteq ListValues(fs[LIST_PATH])
                /\ ListValues(call[p].pre[LIST_PATH]) \subseteq ListValues(fs[LIST_PATH])

\* suricata_url.block_urls: the URL with its bracket obfuscation taken out
CleanUrl(url) ==
    Replace(Replace(url, <<"[", ":", "]">>, <<":">>), <<"[", ".", "]">>, <<".">>)

\* the canonical value of what a rule line was written for
Canonical(l) ==
    CASE l.kind = "ip" -> normalize_ip(l.val)
      [] l.kind = "url" -> CleanUrl(Strip(l.val))
      [] OTHER -> l.val

\* C24: in a rules file no two lines of a kind are for the same canonical
\* value, however often and in whatever spelling the batches have brought it
C24_NoDuplicateValues ==
    \A path \in RulePaths, kind \in Kinds :
        LET ls == LinesOf(fs[path], kind)
        IN  \A i \in 1..Len(ls), j \in 1..Len(ls) :
                i # j => Canonical(ls[i]) # Canonical(ls[j])

\* C25: in a cycle the hash store is called after the IP store, if that is to
\* be called at all, and before the URL store: while block_hashes runs the
\* URL store has not been called, and while block_urls runs the hash store
\* has been, if the cycle is to call it
C25_KindOrder ==
    cyc.entry # "none" =>
        /\ call[1].op = "block_hashes" =>
              /\ "url" \notin cyc.called
              /\ cyc.want["ip"] => "ip" \in cyc.called
        /\ call[1].op = "block_urls" =>
              /\ cyc.want["hash"] => "hash" \in cyc.called
              /\ cyc.want["ip"] => "ip" \in cyc.called

\* the store call of a kind
OpOf(kind) ==
    CASE kind = "ip" -> "block"
      [] kind = "url" -> "block_urls"
      [] OTHER -> "block_hashes"

\* C26: no step of a cycle touches a kind that is disabled or has an empty
\* batch: the store of the kind is not called (so no reload runs for it), the
\* rule lines of the kind stay as they are in every rules file and, for the
\* hash kind, so does the list file
C26_DisabledUntouched ==
    [][cyc.entry # "none" =>
          \A k \in Kinds :
              ~cyc.want[k] =>
                  /\ call[1].op # OpOf(k) /\ call'[1].op # OpOf(k)
                  /\ k \notin cyc'.called
                  /\ \A path \in RulePaths :
                         LinesOf(fs'[path], k) = LinesOf(fs[path], k)
                  /\ k = "hash" => fs'[LIST_PATH] = fs[LIST_PATH]]_vars

\* a cycle has ended that called the IP store and the hash store and left
\* the URL store alone
C26_Witness ==
    /\ cyc.phase = "end" /\ cyc.raised = NoRaise
    /\ ~cyc.want["url"]
    /\ cyc.called = {"ip", "hash"}
    /\ fs[LIST_PATH].lines # <<>>
    /\ LinesOf(fs[RULES_PATH], "ip") # <<>>

\* a lower-case hash of 32, 40 or 64 hexadecimal characters
HexLower == Digits \cup {"a", "b", "c", "d", "e", "f"}
IsHashValue(v) == Len(v) \in {32, 40, 64} /\ \A i \in 1..Len(v) : v[i] \in HexLower

\* C27: every line of the hash list file is a hash of 32, 40 or 64
\* hexadecimal characters, lower-cased and without blanks around it; no other
\* string of a batch gets into the file
C27_HashValidated ==
    \A v \in ListValues(fs[LIST_PATH]) : IsHashValue(v)

\* C28: the value a URL line is written for is the URL with its '[.]' and
\* '[:]' taken out, and no two URL lines of a rules file are for URLs that
\* are the same once these are taken out
C28_UrlCanonical ==
    \A path \in RulePaths :
        LET ls == LinesOf(fs[path], "url")
        IN  /\ \A i \in 1..Len(ls) : ls[i].val = CleanUrl(ls[i].val)
            /\ \A i \in 1..Len(ls), j \in 1..Len(ls) :
                   CleanUrl(ls[i].val) = CleanUrl(ls[j].val) => ls[i].sid = ls[j].sid

\* how many times an item has been mailed
TimesMailed(item) ==
    LET box == fs[OUTBOX].lines
    IN  Cardinality({ij \in (1..Len(box)) \X (1..MaxBatch) :
                       /\ ij[2] <= Len(box[ij[1]].items)
                       /\ box[ij[1]].items[ij[2]] = item})

\* C29: in the course of the day no news item is mailed more than once, and
\* every hash in the day's file is the hash of an item that has been mailed
C29_SentOnce ==
    /\ \A item \in {NEWS_1, NEWS_2} : TimesMailed(item) <= 1
    /\ \A i \in 1..Len(fs[SENT_FILE].lines) :
           \E item \in {NEWS_1, NEWS_2} :
               /\ fs[SENT_FILE].lines[i] = compute_hash(news_key(item))
               /\ TimesMailed(item) >= 1

\* C30: the step in which flush removes the IP rules leaves the URL lines and
\* the hash line of every rules file as they are
C30_FlushOnlyIP ==
    [][\A p \in Procs :
          (call[p].pc = "idle" /\ call'[p].op = "flush") =>
              \A path \in RulePaths :
                  /\ LinesOf(fs'[path], "url") = LinesOf(fs[path], "url")
                  /\ LinesOf(fs'[path], "hash") = LinesOf(fs[path], "hash")]_vars
====
